---- MODULE Spec2Model ----
(***************************************************************************)
(* Model of audio_dsp::EnvelopeDetector (audio/dsp/envelope_detector.cc).  *)
(* The detector owns a prefilter and a smoothing filter (biquad filters    *)
(* with per-channel history), one resampler per channel, and the most      *)
(* recent output column.  Sample values are a small floating-point type:   *)
(* the integers -FloatMax..FloatMax are the finite values, beyond them lie *)
(* the two infinities, and NaN is a value of its own.                      *)
(***************************************************************************)
EXTENDS Integers, Sequences, FiniteSets, TLC

\* ------------------------------------------------------------ bounds
MaxBlockSize == 4
MaxDownsamplers == 3
FloatMax == 8

\* ------------------------------------------------------------ float
PosInf == FloatMax + 1
NegInf == 0 - (FloatMax + 1)
NaN == FloatMax + 2
Float == (NegInf .. PosInf) \cup {NaN}

IsFinite(x) == x >= 0 - FloatMax /\ x <= FloatMax

\* rounding of an exact result into the float type: overflow gives an infinity
FRound(n) == IF n > FloatMax THEN PosInf ELSE IF n < 0 - FloatMax THEN NegInf ELSE n

FNeg(a) == IF a = NaN THEN NaN ELSE 0 - a

FAdd(a, b) ==
  IF IsFinite(a) /\ IsFinite(b) THEN FRound(a + b)
  ELSE IF a = NaN \/ b = NaN THEN NaN
  ELSE IF (a = PosInf /\ b = NegInf) \/ (a = NegInf /\ b = PosInf) THEN NaN
  ELSE IF IsFinite(a) THEN b
  ELSE a

\* a * num / den for a coefficient num/den (den > 0), rounded down
FScale(a, num, den) ==
  IF IsFinite(a) THEN FRound((a * num) \div den)
  ELSE IF a = NaN \/ num = 0 THEN NaN
  ELSE IF num > 0 THEN a
  ELSE 0 - a

\* x.abs2(): the squared magnitude
FAbs2(a) ==
  IF IsFinite(a) THEN FRound(a * a)
  ELSE IF a = NaN THEN NaN
  ELSE PosInf

RECURSIVE ISqrt(_)
ISqrt(n) == IF n < 1 THEN 0 ELSE
  LET r == ISqrt(n \div 4) * 2 IN IF (r + 1) * (r + 1) <= n THEN r + 1 ELSE r

\* sqrt(): NaN for a negative argument
FSqrt(a) ==
  IF a = NaN THEN NaN
  ELSE IF a = PosInf THEN PosInf
  ELSE IF a < 0 THEN NaN
  ELSE ISqrt(a)

\* ------------------------------------------------------------ helpers
RECURSIVE SeqProduct(_)
SeqProduct(sets) ==
  IF sets = <<>> THEN {<<>>}
  ELSE {<<h>> \o t : h \in Head(sets), t \in SeqProduct(Tail(sets))}

\* the function f over 1..n as a sequence value (evaluated once)
AsSeq(f) == f \o <<>>

Zero(n) == AsSeq([i \in 1..n |-> 0])

\* ------------------------------------------------------------ BiquadFilter
\* coefficients [b0, b1, a1, den]: y = b0/den * x + s ; s' = b1/den * x - a1/den * y
Identity == [b0 |-> 1, b1 |-> 0, a1 |-> 0, den |-> 1]
Difference == [b0 |-> 2, b1 |-> -2, a1 |-> 0, den |-> 1]
PrefilterCoeffs == {Identity, Difference}

\* a single lowpass section acting as a leaky integrator with leak
\* corner / (sample_rate * quality); quality is a fraction <<num, den>>
LowpassBiquadFilterCoefficients(sample_rate_hz, corner_hz, quality) ==
  [b0 |-> corner_hz * quality[2], b1 |-> 0,
   a1 |-> 0 - (sample_rate_hz * quality[1] - corner_hz * quality[2]),
   den |-> sample_rate_hz * quality[1]]

BiquadFilter_Init(num_channels, coeffs) ==
  [coeffs |-> coeffs, state |-> Zero(num_channels)]

BiquadFilter_Reset(f) == [f EXCEPT !.state = Zero(Len(f.state))]

\* one channel: <<state, output row>> after the samples of row
RECURSIVE FilterRow(_, _, _)
FilterRow(k, s, row) ==
  IF row = <<>> THEN <<s, <<>>>>
  ELSE LET x == Head(row)
           y == FAdd(FScale(x, k.b0, k.den), s)
           s2 == FAdd(FScale(x, k.b1, k.den), FScale(y, 0 - k.a1, k.den))
           rest == FilterRow(k, s2, Tail(row))
       IN <<rest[1], <<y>> \o rest[2]>>

BiquadFilter_ProcessBlock(f, block) ==
  LET r == AsSeq([c \in 1..Len(block) |-> FilterRow(f.coeffs, f.state[c], block[c])])
  IN [filter |-> [f EXCEPT !.state = AsSeq([c \in 1..Len(block) |-> r[c][1]])],
      out |-> AsSeq([c \in 1..Len(block) |-> r[c][2]])]

\* ------------------------------------------------------------ resampler
DefaultResamplingKernel(input_sample_rate, output_sample_rate) ==
  [input_rate |-> input_sample_rate, output_rate |-> output_sample_rate]

Resampler_New(kernel) == [kernel |-> kernel, phase |-> 0, hist |-> 0]

Resampler_Reset(d) == [d EXCEPT !.phase = 0, !.hist = 0]

\* <<resampler, output samples>> after the samples of row.  An output sample
\* is due whenever the phase passes one input period; the kernel 2, -1 has a
\* negative lobe.
RECURSIVE ResampleRow(_, _)
ResampleRow(d, row) ==
  IF row = <<>> THEN <<d, <<>>>>
  ELSE LET x == Head(row)
           p == d.phase + d.kernel.output_rate
           due == p >= d.kernel.input_rate
           d2 == [d EXCEPT !.phase = IF due THEN p - d.kernel.input_rate ELSE p,
                           !.hist = x]
           rest == ResampleRow(d2, Tail(row))
       IN <<rest[1],
            (IF due THEN <<FAdd(FScale(x, 2, 1), FNeg(d.hist))>> ELSE <<>>) \o rest[2]>>

Resampler_ProcessSamplesEigen(d, row) ==
  LET r == ResampleRow(d, row) IN [resampler |-> r[1], out |-> r[2]]

\* ------------------------------------------------------------ EnvelopeDetector
VARIABLES
  num_channels_,             \* 0 until Init
  sample_rate_hz_,
  envelope_cutoff_hz_,
  envelope_sample_rate_hz_,
  most_recent_output_,       \* one value per channel
  prefilter_,
  envelope_smoother_,
  downsamplers_,             \* sequence of resamplers, grown by Init
  output,                    \* the caller's output array [rows, cols, coeff]
  downsampled,               \* per channel, the local `out` of the last ProcessBlock
  result,                    \* what the last ProcessBlock returned
  call,                      \* the last call (with the block length of ProcessBlock)
  status                     \* "running", or "aborted" after a failed CHECK

config == <<num_channels_, sample_rate_hz_, envelope_cutoff_hz_, envelope_sample_rate_hz_>>
history == <<prefilter_, envelope_smoother_, downsamplers_>>
vars == <<num_channels_, sample_rate_hz_, envelope_cutoff_hz_, envelope_sample_rate_hz_,
          most_recent_output_, prefilter_, envelope_smoother_, downsamplers_,
          output, downsampled, result, call, status>>

\* the values callers pass
ChannelCounts == {-1, 0, 1, 2}
SampleRates == {4, 6}
Cutoffs == {0, 1, 2}
InputSamples == {0, 2}
Blocks(rows, n) == [1..rows -> [1..n -> InputSamples]]
CallerArrays == {[rows |-> 0, cols |-> 0, coeff |-> <<>>],
                 [rows |-> 1, cols |-> 1, coeff |-> <<(<<0>>)>>]}

kOverdamped == <<1, 2>>

\* array.max(0).  Eigen's max does not fix which operand a comparison with NaN
\* returns; max_of_nan is what max(NaN, 0) gives in the call at hand.
FMax0(a, max_of_nan) == IF a = NaN THEN max_of_nan ELSE IF a < 0 THEN 0 ELSE a

\* a detector that takes the square root without the clamp at zero
ClampSqrt_NoClamp(a, max_of_nan) == FSqrt(a)

\* out.array().max(0).sqrt() for one coefficient
ClampSqrt(a, max_of_nan) == FSqrt(FMax0(a, max_of_nan))

\* the state after the constructor; the caller owns some output array
Init ==
  /\ num_channels_ = 0
  /\ sample_rate_hz_ = 0
  /\ envelope_cutoff_hz_ = 0
  /\ envelope_sample_rate_hz_ = 0
  /\ most_recent_output_ = <<>>
  /\ prefilter_ = BiquadFilter_Init(0, Identity)
  /\ envelope_smoother_ = BiquadFilter_Init(0, Identity)
  /\ downsamplers_ = <<>>
  /\ output \in CallerArrays
  /\ downsampled = <<>>
  /\ result = "none"
  /\ call = <<"new">>
  /\ status = "running"

\* an Init whose cutoff check admits the Nyquist rate of the envelope itself
InitChecks_CutoffAtNyquist(num_channels, sample_rate_hz, envelope_cutoff_hz, envelope_sample_rate_hz) ==
  /\ envelope_sample_rate_hz <= sample_rate_hz
  /\ 2 * envelope_cutoff_hz <= envelope_sample_rate_hz
  /\ envelope_cutoff_hz > 0
  /\ num_channels > 0

\* the four CHECKs of Init
InitChecks(num_channels, sample_rate_hz, envelope_cutoff_hz, envelope_sample_rate_hz) ==
  /\ envelope_sample_rate_hz <= sample_rate_hz
  /\ 2 * envelope_cutoff_hz < envelope_sample_rate_hz
  /\ envelope_cutoff_hz > 0
  /\ num_channels > 0

\* an Init that starts most_recent_output_ at one
InitialMostRecentOutput_Ones(num_channels) == AsSeq([i \in 1..num_channels |-> 1])

InitialMostRecentOutput(num_channels) == Zero(num_channels)

\* downsamplers_.emplace_back(resampling_kernel, 500), once per channel
RECURSIVE EmplaceBack(_, _, _)
EmplaceBack(ds, kernel, n) ==
  IF n = 0 THEN ds ELSE EmplaceBack(Append(ds, Resampler_New(kernel)), kernel, n - 1)

EnvelopeDetector_Init(num_channels, sample_rate_hz, envelope_cutoff_hz, envelope_sample_rate_hz, coeffs) ==
  /\ status = "running"
  /\ Len(downsamplers_) + num_channels <= MaxDownsamplers
  /\ call' = <<"Init">>
  /\ IF InitChecks(num_channels, sample_rate_hz, envelope_cutoff_hz,
                   envelope_sample_rate_hz)
     THEN /\ num_channels_' = num_channels
          /\ sample_rate_hz_' = sample_rate_hz
          /\ envelope_cutoff_hz_' = envelope_cutoff_hz
          /\ envelope_sample_rate_hz_' = envelope_sample_rate_hz
          /\ most_recent_output_' = InitialMostRecentOutput(num_channels)
          /\ prefilter_' = BiquadFilter_Init(num_channels, coeffs)
          /\ envelope_smoother_' = BiquadFilter_Init(num_channels,
               LowpassBiquadFilterCoefficients(sample_rate_hz, envelope_cutoff_hz,
                                               kOverdamped))
          /\ downsamplers_' = EmplaceBack(downsamplers_,
               DefaultResamplingKernel(sample_rate_hz, envelope_sample_rate_hz),
               num_channels)
          /\ UNCHANGED <<output, downsampled, result, status>>
     ELSE /\ status' = "aborted"
          /\ UNCHANGED <<num_channels_, sample_rate_hz_, envelope_cutoff_hz_,
                         envelope_sample_rate_hz_, most_recent_output_, prefilter_,
                         envelope_smoother_, downsamplers_, output, downsampled, result>>

\* a Reset that leaves the smoother's history alone
EnvelopeDetector_Reset_KeepsSmoother ==
  /\ status = "running"
  /\ call' = <<"Reset">>
  /\ prefilter_' = BiquadFilter_Reset(prefilter_)
  /\ downsamplers_' = [i \in 1..Len(downsamplers_) |-> Resampler_Reset(downsamplers_[i])]
  /\ UNCHANGED <<num_channels_, sample_rate_hz_, envelope_cutoff_hz_,
                 envelope_sample_rate_hz_, most_recent_output_, envelope_smoother_,
                 output, downsampled, result, status>>

\* a Reset that goes back to the state of the constructor
EnvelopeDetector_Reset_Uninitializes ==
  /\ status = "running"
  /\ call' = <<"Reset">>
  /\ num_channels_' = 0
  /\ prefilter_' = BiquadFilter_Reset(prefilter_)
  /\ envelope_smoother_' = BiquadFilter_Reset(envelope_smoother_)
  /\ downsamplers_' = <<>>
  /\ most_recent_output_' = <<>>
  /\ UNCHANGED <<sample_rate_hz_, envelope_cutoff_hz_, envelope_sample_rate_hz_,
                 output, downsampled, result, status>>

\* a Reset that resets the first downsampler only
EnvelopeDetector_Reset_FirstDownsampler ==
  /\ status = "running"
  /\ call' = <<"Reset">>
  /\ prefilter_' = BiquadFilter_Reset(prefilter_)
  /\ envelope_smoother_' = BiquadFilter_Reset(envelope_smoother_)
  /\ downsamplers_' = [i \in 1..Len(downsamplers_) |->
        IF i = 1 THEN Resampler_Reset(downsamplers_[i]) ELSE downsamplers_[i]]
  /\ UNCHANGED <<num_channels_, sample_rate_hz_, envelope_cutoff_hz_,
                 envelope_sample_rate_hz_, most_recent_output_, output, downsampled,
                 result, status>>

\* a Reset that also zeroes most_recent_output_, as Init does
EnvelopeDetector_Reset_ZeroesMostRecent ==
  /\ status = "running"
  /\ call' = <<"Reset">>
  /\ prefilter_' = BiquadFilter_Reset(prefilter_)
  /\ envelope_smoother_' = BiquadFilter_Reset(envelope_smoother_)
  /\ downsamplers_' = [i \in 1..Len(downsamplers_) |-> Resampler_Reset(downsamplers_[i])]
  /\ most_recent_output_' = Zero(num_channels_)
  /\ UNCHANGED <<num_channels_, sample_rate_hz_, envelope_cutoff_hz_,
                 envelope_sample_rate_hz_, output, downsampled, result, status>>

EnvelopeDetector_Reset ==
  /\ status = "running"
  /\ call' = <<"Reset">>
  /\ prefilter_' = BiquadFilter_Reset(prefilter_)
  /\ envelope_smoother_' = BiquadFilter_Reset(envelope_smoother_)
  /\ downsamplers_' = [i \in 1..Len(downsamplers_) |-> Resampler_Reset(downsamplers_[i])]
  /\ UNCHANGED <<num_channels_, sample_rate_hz_, envelope_cutoff_hz_,
                 envelope_sample_rate_hz_, most_recent_output_, output, downsampled,
                 result, status>>

\* an early return that empties the caller's array before it fails
ProcessBlock_NotInitialized_ClearsOutput ==
  /\ result' = FALSE
  /\ output' = [rows |-> 0, cols |-> 0, coeff |-> <<>>]
  /\ UNCHANGED <<num_channels_, sample_rate_hz_, envelope_cutoff_hz_,
                 envelope_sample_rate_hz_, most_recent_output_, prefilter_,
                 envelope_smoother_, downsamplers_, downsampled, status>>

\* the early return of ProcessBlock on a detector that was never initialized
ProcessBlock_NotInitialized ==
  /\ result' = FALSE
  /\ UNCHANGED <<num_channels_, sample_rate_hz_, envelope_cutoff_hz_,
                 envelope_sample_rate_hz_, most_recent_output_, prefilter_,
                 envelope_smoother_, downsamplers_, output, downsampled, status>>

\* output->row(channel) = out.array().max(0).sqrt() into a row of cols
\* coefficients.  Eigen does not resize a row: a longer out is cut, and past the
\* end of a shorter out the assignment reads whatever the buffer holds.
RowOutcomes(out, cols, max_of_nan) ==
  SeqProduct([i \in 1..cols |->
     IF i <= Len(out) THEN {ClampSqrt(out[i], max_of_nan)}
     ELSE {ClampSqrt(g, max_of_nan) : g \in Float}])

\* what max(NaN, 0) may give in a call; the choice shows only when some
\* downsampled value is NaN or is read past the end of out
MaxOfNaN(ds) ==
  IF \E c \in 1..Len(ds) :
       \/ Len(ds[c].out) < Len(ds[1].out)
       \/ \E i \in 1..Len(ds[c].out) : ds[c].out[i] = NaN
  THEN {NaN, 0} ELSE {0}

\* a detector that keeps the first column of the block
StoreMostRecentOutput_FirstColumn(o) ==
  IF o.cols > 0 THEN [c \in 1..o.rows |-> o.coeff[c][1]]
  ELSE most_recent_output_

\* a detector that zeroes most_recent_output_ on a block without columns
StoreMostRecentOutput_ZeroWhenEmpty(o) ==
  IF o.cols > 0 THEN [c \in 1..o.rows |-> o.coeff[c][o.cols]]
  ELSE Zero(o.rows)

\* most_recent_output_ after a block: its last column, if it has one
StoreMostRecentOutput(o) ==
  IF o.cols > 0 THEN [c \in 1..o.rows |-> o.coeff[c][o.cols]]
  ELSE most_recent_output_

EnvelopeDetector_ProcessBlock(input) ==
  /\ status = "running"
  /\ call' = <<"ProcessBlock", Len(input[1])>>
  /\ IF num_channels_ = 0
     THEN ProcessBlock_NotInitialized
     ELSE \E pre \in {BiquadFilter_ProcessBlock(prefilter_, input)} :
          \E rectified \in {AsSeq([c \in 1..num_channels_ |->
                             AsSeq([i \in 1..Len(pre.out[c]) |-> FAbs2(pre.out[c][i])])])} :
          \E smooth \in {BiquadFilter_ProcessBlock(envelope_smoother_, rectified)} :
          \E ds \in {AsSeq([c \in 1..num_channels_ |->
                      Resampler_ProcessSamplesEigen(downsamplers_[c], smooth.out[c])])} :
          LET cols == Len(ds[1].out)
              sizes_differ == \E c \in 1..num_channels_ : Len(ds[c].out) # cols
          IN \/ \* a build with Eigen's assertions aborts on a row of another size
                /\ sizes_differ
                /\ status' = "aborted"
                /\ UNCHANGED <<num_channels_, sample_rate_hz_, envelope_cutoff_hz_,
                               envelope_sample_rate_hz_, most_recent_output_, prefilter_,
                               envelope_smoother_, downsamplers_, output, downsampled,
                               result>>
             \/ /\ prefilter_' = pre.filter
                /\ envelope_smoother_' = smooth.filter
                /\ downsamplers_' = [i \in 1..Len(downsamplers_) |->
                      IF i <= num_channels_ THEN ds[i].resampler ELSE downsamplers_[i]]
                /\ downsampled' = [c \in 1..num_channels_ |-> ds[c].out]
                /\ \E max_of_nan \in MaxOfNaN(ds) :
                     output' \in
                       {[rows |-> num_channels_, cols |-> cols, coeff |-> m] :
                          m \in SeqProduct([c \in 1..num_channels_ |->
                                   RowOutcomes(ds[c].out, cols, max_of_nan)])}
                /\ most_recent_output_' = StoreMostRecentOutput(output')
                /\ result' = TRUE
                /\ UNCHANGED <<num_channels_, sample_rate_hz_, envelope_cutoff_hz_,
                               envelope_sample_rate_hz_, status>>

\* the rows of the blocks a caller passes: one per channel
InputRows == IF num_channels_ = 0 THEN 1 ELSE num_channels_

\* Callers that follow the documented lifecycle: Init once, on a detector not
\* yet initialized, then Reset and ProcessBlock in any order, on blocks of at
\* most MaxBlockSize samples over all channels.
Next ==
  \/ \E num_channels \in ChannelCounts, sample_rate_hz \in SampleRates,
        envelope_cutoff_hz \in Cutoffs, envelope_sample_rate_hz \in SampleRates,
        coeffs \in PrefilterCoeffs :
       /\ num_channels_ = 0
       /\ EnvelopeDetector_Init(num_channels, sample_rate_hz, envelope_cutoff_hz,
                                envelope_sample_rate_hz, coeffs)
  \/ EnvelopeDetector_Reset
  \/ \E n \in 0..(MaxBlockSize \div InputRows) :
       \E input \in Blocks(InputRows, n) :
         EnvelopeDetector_ProcessBlock(input)

Spec == Init /\ [][Next]_vars

\* Any sequence of calls, Init on an initialized detector included; the stream
\* is fed in blocks of at most one sample.
NextAnyOrder ==
  \/ \E num_channels \in ChannelCounts, sample_rate_hz \in SampleRates,
        envelope_cutoff_hz \in Cutoffs, envelope_sample_rate_hz \in SampleRates,
        coeffs \in PrefilterCoeffs :
       EnvelopeDetector_Init(num_channels, sample_rate_hz, envelope_cutoff_hz,
                             envelope_sample_rate_hz, coeffs)
  \/ EnvelopeDetector_Reset
  \/ \E n \in 0..1 :
       \E input \in Blocks(InputRows, n) :
         EnvelopeDetector_ProcessBlock(input)

SpecAnyOrder == Init /\ [][NextAnyOrder]_vars

\* ---------------------------------------------------------------------------
\* The two states of a detector, and the views of a state the properties use

Uninitialized == num_channels_ = 0
Ready == num_channels_ > 0

\* Init ran once: one downsampler per channel
InitializedOnce == Len(downsamplers_) = num_channels_

\* the last call was a ProcessBlock that returned true
Succeeded == status = "running" /\ call[1] = "ProcessBlock" /\ result = TRUE

LastColumn(o) == [c \in 1..o.rows |-> o.coeff[c][o.cols]]

detector == <<num_channels_, sample_rate_hz_, envelope_cutoff_hz_,
              envelope_sample_rate_hz_, most_recent_output_, prefilter_,
              envelope_smoother_, downsamplers_>>

\* C1: ProcessBlock on a detector that was never initialized returns false,
\* does not abort, and leaves the caller's output array, most_recent_output_,
\* the configuration and every filter and downsampler as they were; the
\* ProcessBlock that follows a later Init succeeds.
C1_UninitializedProcessBlock ==
  [][/\ (Uninitialized /\ call'[1] = "ProcessBlock") =>
          /\ result' = FALSE
          /\ status' = "running"
          /\ output' = output
          /\ detector' = detector
     /\ (call[1] = "Init" /\ Ready /\ call'[1] = "ProcessBlock") => result' = TRUE
    ]_vars

\* a failed call that was handed an array with a coefficient in it
C1_Witness ==
  /\ Uninitialized
  /\ call[1] = "ProcessBlock"
  /\ result = FALSE
  /\ output.rows = 1 /\ output.cols = 1

\* C2: after a ProcessBlock that returned true with at least one output
\* sample per channel, most_recent_output_ is the last column of the block,
\* channel by channel.
C2_MostRecentIsLastColumn ==
  (Succeeded /\ output.cols >= 1) =>
     /\ Len(most_recent_output_) = output.rows
     /\ \A c \in 1..output.rows :
          most_recent_output_[c] = output.coeff[c][output.cols]

\* a block of two columns that differ, on two channels
C2_Witness ==
  /\ Succeeded
  /\ num_channels_ = 2
  /\ output.cols >= 2
  /\ output.coeff[1][1] # output.coeff[1][output.cols]
  /\ most_recent_output_[1] = output.coeff[1][output.cols]

\* C3: a ProcessBlock that returns true with no output sample leaves
\* most_recent_output_ as the call before it left it.
C3_EmptyBlockKeepsMostRecent ==
  [][(Ready /\ call'[1] = "ProcessBlock" /\ status' = "running"
      /\ result' = TRUE /\ output'.cols = 0)
       => most_recent_output_' = most_recent_output_]_vars

\* an empty block after a block that left a value other than zero
C3_Witness ==
  /\ Succeeded
  /\ output.cols = 0
  /\ \E c \in 1..num_channels_ : most_recent_output_[c] # 0


\* a value that is not below zero: a finite value from zero up, +Inf, or NaN
NotNegative(v) == v = NaN \/ v >= 0
FiniteNonNegative(v) == IsFinite(v) /\ v >= 0

\* C4 as the specification states it: after any sequence of Init, Reset and
\* ProcessBlock, every sample of a block that ProcessBlock returned is finite
\* and at least zero, and so is every entry of most_recent_output_.
C4_OutputFiniteNonNegative ==
  /\ Succeeded =>
       \A c \in 1..output.rows : \A i \in 1..output.cols :
          FiniteNonNegative(output.coeff[c][i])
  /\ \A c \in 1..Len(most_recent_output_) :
       FiniteNonNegative(most_recent_output_[c])

\* C4, amended: after any sequence of Init, Reset and ProcessBlock, no sample
\* of a block that ProcessBlock returned and no entry of most_recent_output_
\* is below zero (each is a finite value from zero up, +Inf or NaN), and a
\* sample is finite and at least zero whenever the downsampled mean-square
\* value it is computed from is finite, below zero included.
C4_OutputNeverNegative ==
  /\ Succeeded =>
       \A c \in 1..output.rows : \A i \in 1..output.cols :
          /\ NotNegative(output.coeff[c][i])
          /\ (i <= Len(downsampled[c]) /\ IsFinite(downsampled[c][i]))
               => FiniteNonNegative(output.coeff[c][i])
  /\ \A c \in 1..Len(most_recent_output_) :
       NotNegative(most_recent_output_[c])

\* the downsampler undershot below zero and the block holds zero there
C4_Witness ==
  /\ Succeeded
  /\ \E c \in 1..output.rows : \E i \in 1..output.cols :
       /\ i <= Len(downsampled[c])
       /\ IsFinite(downsampled[c][i])
       /\ downsampled[c][i] < 0
       /\ output.coeff[c][i] = 0

\* the histories Init gives a detector of the configuration at hand
FreshHistory ==
  <<BiquadFilter_Init(num_channels_, prefilter_.coeffs),
    BiquadFilter_Init(num_channels_,
       LowpassBiquadFilterCoefficients(sample_rate_hz_, envelope_cutoff_hz_,
                                       kOverdamped)),
    EmplaceBack(<<>>, DefaultResamplingKernel(sample_rate_hz_,
                                              envelope_sample_rate_hz_),
                num_channels_)>>

\* C5: on a detector initialized once, whatever blocks it has processed, Reset
\* leaves the prefilter, the smoother and every downsampler with the histories
\* they have right after Init with the same configuration, and leaves the
\* configuration as it was; ProcessBlock reads nothing else of the detector,
\* so the outputs that follow are those of a fresh detector.
C5_ResetRestoresFreshHistory ==
  [][(Ready /\ InitializedOnce /\ call'[1] = "Reset")
       => /\ history' = FreshHistory
          /\ config' = config
          /\ status' = "running"]_vars

\* a Reset after blocks that left a value other than zero
C5_Witness ==
  /\ status = "running"
  /\ call[1] = "Reset"
  /\ Ready /\ InitializedOnce
  /\ \E c \in 1..num_channels_ : most_recent_output_[c] # 0
  /\ history = FreshHistory


\* the parameters that the specification says Init rejects
Rejected(num_channels, sample_rate_hz, envelope_cutoff_hz, envelope_sample_rate_hz) ==
  \/ envelope_sample_rate_hz > sample_rate_hz
  \/ 2 * envelope_cutoff_hz >= envelope_sample_rate_hz
  \/ envelope_cutoff_hz <= 0
  \/ num_channels <= 0

\* C6: Init with an envelope rate above the input rate, a cutoff at or above
\* half the envelope rate, a cutoff at or below zero, or a channel count at or
\* below zero aborts with nothing of the detector changed, so a detector in
\* the Ready state never holds such a configuration.
C6_InvalidParametersRejected ==
  /\ [](Ready => ~Rejected(num_channels_, sample_rate_hz_, envelope_cutoff_hz_,
                           envelope_sample_rate_hz_))
  /\ [][call'[1] = "Init" =>
          /\ status' = "aborted" => (detector' = detector /\ output' = output)
          /\ \A num_channels \in ChannelCounts, sample_rate_hz \in SampleRates,
                envelope_cutoff_hz \in Cutoffs,
                envelope_sample_rate_hz \in SampleRates,
                coeffs \in PrefilterCoeffs :
               (/\ Rejected(num_channels, sample_rate_hz, envelope_cutoff_hz,
                            envelope_sample_rate_hz)
                /\ EnvelopeDetector_Init(num_channels, sample_rate_hz,
                                         envelope_cutoff_hz,
                                         envelope_sample_rate_hz, coeffs))
                 => status' = "aborted"
       ]_vars

\* an Init that aborted and left the detector and the caller's array alone
C6_Witness ==
  /\ status = "aborted"
  /\ call[1] = "Init"
  /\ Uninitialized
  /\ output.rows = 1 /\ output.cols = 1

\* C7: a detector is Uninitialized or Ready; only Init takes it from
\* Uninitialized to Ready; Reset and ProcessBlock on a Ready detector leave it
\* Ready with the configuration and the number of downsamplers as they were;
\* no call takes a Ready detector back to Uninitialized.
C7_Lifecycle ==
  /\ [](Uninitialized \/ Ready)
  /\ [][/\ (Uninitialized /\ Ready') => call'[1] = "Init"
        /\ Ready => Ready'
        /\ (Ready /\ call'[1] \in {"Reset", "ProcessBlock"}) =>
              /\ config' = config
              /\ Len(downsamplers_') = Len(downsamplers_)
       ]_vars

\* a Ready detector that was initialized, has processed a block and was reset
C7_Witness ==
  /\ status = "running"
  /\ Ready
  /\ call[1] = "Reset"
  /\ \E c \in 1..num_channels_ : Len(downsampled) >= c /\ Len(downsampled[c]) > 0

\* C8: ProcessBlock on an empty block right after Init returns true with a
\* block of one row per channel and no column, and most_recent_output_ is
\* zero in every channel.
C8_EmptyBlockAfterInit ==
  [][(status = "running" /\ call[1] = "Init" /\ call' = <<"ProcessBlock", 0>>)
       => /\ status' = "running"
          /\ result' = TRUE
          /\ output'.rows = num_channels_
          /\ output'.cols = 0
          /\ Len(most_recent_output_') = num_channels_
          /\ \A c \in 1..num_channels_ : most_recent_output_'[c] = 0]_vars

\* the state after Init and one empty block, on two channels
C8_Witness ==
  /\ Succeeded
  /\ call[2] = 0
  /\ num_channels_ = 2
  /\ output.rows = 2 /\ output.cols = 0
  /\ history = FreshHistory
  /\ most_recent_output_ = <<0, 0>>

\* C9: on a detector initialized once, in every ProcessBlock that returns
\* true every channel's downsampler gives the same number of samples, the
\* number of columns of the block, and no ProcessBlock aborts.
C9_EqualOutputCounts ==
  /\ Succeeded =>
       /\ Len(downsampled) = num_channels_
       /\ \A c \in 1..num_channels_ :
            /\ Len(downsampled[c]) = output.cols
            /\ Len(output.coeff[c]) = output.cols
            /\ downsamplers_[c].phase = downsamplers_[1].phase
  /\ (status = "aborted") => call[1] = "Init"

\* two channels gave a sample each while the downsamplers are between samples
C9_Witness ==
  /\ Succeeded
  /\ num_channels_ = 2
  /\ output.cols >= 1
  /\ downsamplers_[1].phase # 0
  /\ Len(downsampled[2]) = output.cols

\* C10: Reset leaves most_recent_output_ as it was, the last column of the
\* last block with a column when that block is the one the caller still
\* holds, and a ProcessBlock after Reset that gives no output sample leaves it
\* so too.
C10_ResetKeepsMostRecent ==
  /\ []((status = "running" /\ call[1] = "Reset" /\ Ready /\ output.cols > 0
         /\ output.rows = num_channels_)
          => most_recent_output_ = LastColumn(output))
  /\ [][/\ call'[1] = "Reset" => most_recent_output_' = most_recent_output_
        /\ (call[1] = "Reset" /\ Ready /\ call'[1] = "ProcessBlock"
            /\ status' = "running" /\ output'.cols = 0)
             => most_recent_output_' = most_recent_output_
       ]_vars

\* a Reset on a detector whose last block left a value other than zero
C10_Witness ==
  /\ status = "running"
  /\ call[1] = "Reset"
  /\ output.cols > 0
  /\ output.rows = num_channels_
  /\ \E c \in 1..num_channels_ : most_recent_output_[c] # 0

====
